---- MODULE Spec2Model ----
(***************************************************************************)
(* Duplicate-person detector over JSON declaration files.                  *)
(*                                                                         *)
(*   detector_duplicados.py        whole-tree mode   (modo = "arbol")      *)
(*   detector_duplicados_1_v2.py   partitioned mode  (modo = "particionado")*)
(*   detector_duplicados_s1_v3.py  partitioned mode, same extractor,       *)
(*                                 reader and analyzer as v2               *)
(*                                                                         *)
(* A Python str is a sequence of code points, so that joining, splitting   *)
(* and comparing strings are computed character by character.  An optional *)
(* JSON key is <<>> when the key is missing and <<v>> when it holds v.     *)
(***************************************************************************)
EXTENDS Integers, Sequences, FiniteSets, TLC

\* ------------------------------------------------------------------------
\* Bounds of the model
\* ------------------------------------------------------------------------
\* files visited in one batch
MaxArchivos == 2
\* elements of one JSON array
MaxRegistros == 3
\* elements read in one batch, over all its files
MaxTotal == 5
\* records of a batch handed directly to the analyzer (SpecAnalizador)
MaxLote == 4

\* ------------------------------------------------------------------------
\* Strings
\* ------------------------------------------------------------------------
\* '|' of the whole-tree key, ' ' of nombreCompleto
Pipe == 124
Espacio == 32

\* "a", "b" and the names built from them
Vacia == <<>>
LetraA == <<97>>
LetraB == <<98>>

RECURSIVE LexMenor(_, _)
\* Python's s < t on str: code point by code point, a proper prefix is less
LexMenor(s, t) ==
    IF t = <<>> THEN FALSE
    ELSE IF s = <<>> THEN TRUE
    ELSE IF s[1] < t[1] THEN TRUE
    ELSE IF s[1] > t[1] THEN FALSE
    ELSE LexMenor(Tail(s), Tail(t))

RECURSIVE Split(_, _)
\* str.split(sep) for a one-character separator
Split(s, sep) ==
    IF \A i \in 1..Len(s) : s[i] # sep THEN <<s>>
    ELSE LET i == CHOOSE j \in 1..Len(s) :
                     /\ s[j] = sep
                     /\ \A k \in 1..(j - 1) : s[k] # sep
         IN  <<SubSeq(s, 1, i - 1)>> \o Split(SubSeq(s, i + 1, Len(s)), sep)

\* dict.get(key, default) on an optional key
Get(opcion, default) == IF opcion = <<>> THEN default ELSE opcion[1]

\* ------------------------------------------------------------------------
\* JSON elements (the items of a file's array)
\* ------------------------------------------------------------------------
\* forma                : "dict", "lista" (a container without the key) or
\*                        "escalar" (number/null: the `in` test raises)
\* declaracion          : "ausente", "escalar" (the `in` test raises), "dict"
\* situacionPatrimonial : "ausente", "escalar" (.get raises), "dict"
\* datosGenerales       : "ausente", "vacio" ({}), "escalar" (truthy value
\*                        without .get), "dict" (non-empty)
\* metadata             : "ausente", "escalar" (.get raises), "dict"
Registro(n, p, s, i) ==
    [forma |-> "dict", declaracion |-> "dict", situacionPatrimonial |-> "dict",
     datosGenerales |-> "dict", nombre |-> n, primerApellido |-> p,
     segundoApellido |-> s, id |-> i, metadata |-> "dict", institucion |-> <<>>,
     actualizacion |-> <<>>, tipo |-> <<>>]

\* The test `'declaracion' in registro and 'situacionPatrimonial' in
\* registro['declaracion']` or what follows it up to the name fields raises.
LanzaNavegacion(registro) ==
    \/ registro.forma = "escalar"
    \/ /\ registro.forma = "dict"
       /\ registro.declaracion = "escalar"
    \/ /\ registro.forma = "dict"
       /\ registro.declaracion = "dict"
       /\ registro.situacionPatrimonial = "escalar"
    \/ /\ registro.forma = "dict"
       /\ registro.declaracion = "dict"
       /\ registro.situacionPatrimonial = "dict"
       /\ registro.datosGenerales = "escalar"

\* Both `if` tests pass: the path exists and datos_generales is truthy.
DatosGeneralesVerdadero(registro) ==
    /\ registro.forma = "dict"
    /\ registro.declaracion = "dict"
    /\ registro.situacionPatrimonial = "dict"
    /\ registro.datosGenerales \in {"dict", "escalar"}

\* metadata.get(...) raises
LanzaMetadata(registro) == registro.metadata = "escalar"

\* f"{nombre} {primer_apellido} {segundo_apellido}"
NombreCompleto(nombre, primer_apellido, segundo_apellido) ==
    nombre \o <<Espacio>> \o primer_apellido \o <<Espacio>> \o segundo_apellido

\* f"{nombre}|{primer_apellido}|{segundo_apellido}"
PersonaKey(nombre, primer_apellido, segundo_apellido) ==
    nombre \o <<Pipe>> \o primer_apellido \o <<Pipe>> \o segundo_apellido

\* return None
Ninguno == <<>>

\* Faulty variant: the `if datos_generales:` test dropped, so that an empty
\* datosGenerales yields a record of empty names.
extraer_datos_persona_sin_if(registro) ==
    IF LanzaNavegacion(registro) THEN Ninguno
    ELSE IF ~(/\ registro.forma = "dict"
              /\ registro.declaracion = "dict"
              /\ registro.situacionPatrimonial = "dict") THEN Ninguno
    ELSE IF LanzaMetadata(registro) THEN Ninguno
    ELSE LET vacio == registro.datosGenerales \in {"ausente", "vacio"}
             nombre == IF vacio THEN Vacia ELSE Get(registro.nombre, Vacia)
             primer_apellido ==
                 IF vacio THEN Vacia ELSE Get(registro.primerApellido, Vacia)
             segundo_apellido ==
                 IF vacio THEN Vacia ELSE Get(registro.segundoApellido, Vacia)
         IN  <<[id |-> Get(registro.id, "Sin ID"),
                nombre |-> nombre,
                primerApellido |-> primer_apellido,
                segundoApellido |-> segundo_apellido,
                nombreCompleto |->
                    NombreCompleto(nombre, primer_apellido, segundo_apellido),
                institucion |-> Get(registro.institucion, "Sin institucion"),
                fechaActualizacion |-> Get(registro.actualizacion, "Sin fecha"),
                tipoDeclaracion |-> Get(registro.tipo, "Sin tipo")]>>

\* extraer_datos_persona (v2, v3): <<record>> or Ninguno.  Any exception is
\* caught inside the function, which then returns None.
extraer_datos_persona(registro) ==
    IF LanzaNavegacion(registro) THEN Ninguno
    ELSE IF ~DatosGeneralesVerdadero(registro) THEN Ninguno
    ELSE IF LanzaMetadata(registro) THEN Ninguno
    ELSE LET nombre == Get(registro.nombre, Vacia)
             primer_apellido == Get(registro.primerApellido, Vacia)
             segundo_apellido == Get(registro.segundoApellido, Vacia)
         IN  <<[id |-> Get(registro.id, "Sin ID"),
                nombre |-> nombre,
                primerApellido |-> primer_apellido,
                segundoApellido |-> segundo_apellido,
                nombreCompleto |->
                    NombreCompleto(nombre, primer_apellido, segundo_apellido),
                institucion |-> Get(registro.institucion, "Sin institucion"),
                fechaActualizacion |-> Get(registro.actualizacion, "Sin fecha"),
                tipoDeclaracion |-> Get(registro.tipo, "Sin tipo")]>>

\* ------------------------------------------------------------------------
\* Files
\* ------------------------------------------------------------------------
\* ruta      : the file's path (its position in the walk)
\* extension : ".json" or ".txt"
\* lectura   : "error" when open() or json.load() raises, else "ok"
\* forma     : "lista" (array), "dict" (one bare object) or "escalar"
\*             (a number or null: iterating it raises)
\* contenido : the array's elements, or the bare object itself
EsJson(archivo) == archivo.extension = ".json"

\* if isinstance(contenido, dict): contenido = [contenido]
Elementos(archivo) ==
    IF archivo.forma = "dict" THEN <<archivo.contenido>> ELSE archivo.contenido

\* open(), json.load() or the iteration of the content raises
LanzaArchivo(archivo) == archivo.lectura = "error" \/ archivo.forma = "escalar"

\* ------------------------------------------------------------------------
\* Whole-tree mode: detector_duplicados.py
\* ------------------------------------------------------------------------
\* datos_personas[persona_key].append(persona) on a defaultdict(list); the
\* dict keeps its keys in the order of their first insertion.
Agregar(datos, clave, persona) ==
    IF \E i \in 1..Len(datos) : datos[i].clave = clave
    THEN LET i == CHOOSE j \in 1..Len(datos) : datos[j].clave = clave
         IN  [datos EXCEPT ![i].ocurrencias = Append(@, persona)]
    ELSE Append(datos, [clave |-> clave, ocurrencias |-> <<persona>>])

\* The body of the inner try raises for this element.
LanzaRegistro(registro) ==
    \/ LanzaNavegacion(registro)
    \/ /\ DatosGeneralesVerdadero(registro)
       /\ Get(registro.nombre, Vacia) # Vacia
       /\ Get(registro.primerApellido, Vacia) # Vacia
       /\ LanzaMetadata(registro)

\* Faulty variant: the test `if nombre and primer_apellido` dropped.
procesar_registro_sin_guarda(registro, ruta_archivo, datos) ==
    IF LanzaNavegacion(registro) THEN datos
    ELSE IF ~DatosGeneralesVerdadero(registro) THEN datos
    ELSE IF LanzaMetadata(registro) THEN datos
    ELSE LET nombre == Get(registro.nombre, Vacia)
             primer_apellido == Get(registro.primerApellido, Vacia)
             segundo_apellido == Get(registro.segundoApellido, Vacia)
         IN  Agregar(datos,
                     PersonaKey(nombre, primer_apellido, segundo_apellido),
                     [id |-> Get(registro.id, "Sin ID"),
                      nombre |-> nombre,
                      primerApellido |-> primer_apellido,
                      segundoApellido |-> segundo_apellido,
                      institucion |->
                          Get(registro.institucion, "Sin institucion"),
                      fechaActualizacion |->
                          Get(registro.actualizacion, "Sin fecha"),
                      rutaArchivo |-> ruta_archivo])

\* One iteration of `for registro in contenido` of procesar_archivo_json:
\* the inner try and its handler, which logs and goes on.
procesar_registro(registro, ruta_archivo, datos) ==
    IF LanzaNavegacion(registro) THEN datos
    ELSE IF ~DatosGeneralesVerdadero(registro) THEN datos
    ELSE LET nombre == Get(registro.nombre, Vacia)
             primer_apellido == Get(registro.primerApellido, Vacia)
             segundo_apellido == Get(registro.segundoApellido, Vacia)
         IN  IF nombre = Vacia \/ primer_apellido = Vacia THEN datos
             ELSE IF LanzaMetadata(registro) THEN datos
             ELSE Agregar(datos,
                     PersonaKey(nombre, primer_apellido, segundo_apellido),
                     [id |-> Get(registro.id, "Sin ID"),
                      nombre |-> nombre,
                      primerApellido |-> primer_apellido,
                      segundoApellido |-> segundo_apellido,
                      institucion |->
                          Get(registro.institucion, "Sin institucion"),
                      fechaActualizacion |->
                          Get(registro.actualizacion, "Sin fecha"),
                      rutaArchivo |-> ruta_archivo])

RECURSIVE procesar_registros_sin_try(_, _, _)
\* Faulty variant: no inner try, so the first element that raises ends the file.
procesar_registros_sin_try(contenido, ruta_archivo, datos) ==
    IF contenido = <<>> THEN datos
    ELSE IF LanzaRegistro(Head(contenido)) THEN datos
    ELSE procesar_registros_sin_try(Tail(contenido), ruta_archivo,
             procesar_registro(Head(contenido), ruta_archivo, datos))

RECURSIVE procesar_registros(_, _, _)
\* for registro in contenido: try ... except (log)
procesar_registros(contenido, ruta_archivo, datos) ==
    IF contenido = <<>> THEN datos
    ELSE procesar_registros(Tail(contenido), ruta_archivo,
             procesar_registro(Head(contenido), ruta_archivo, datos))

\* Faulty variant: no outer try, so a file that cannot be read raises out of the
\* function, into the handler of explorar_directorios.
procesar_archivo_json_sin_try(archivo, datos) ==
    IF LanzaArchivo(archivo)
    THEN [datos |-> datos, excepcion |-> TRUE]
    ELSE [datos |-> procesar_registros(Elementos(archivo), archivo.ruta, datos),
          excepcion |-> FALSE]

\* procesar_archivo_json: the accumulator after the file, and whether an
\* exception leaves the function (the outer handler catches every one).
procesar_archivo_json(archivo, datos) ==
    IF LanzaArchivo(archivo)
    THEN [datos |-> datos, excepcion |-> FALSE]
    ELSE [datos |-> procesar_registros(Elementos(archivo), archivo.ruta, datos),
          excepcion |-> FALSE]

\* duplicados = {k: v for k, v in datos_personas.items() if len(v) > 1}
Duplicados(datos) == SelectSeq(datos, LAMBDA g : Len(g.ocurrencias) > 1)

\* nombre, primer_apellido, segundo_apellido = persona_key.split('|')
\* raises ValueError unless the key splits into exactly three parts.
LanzaDesempaquetar(clave) == Len(Split(clave, Pipe)) # 3

\* Faulty variant: enumerate(ocurrencias), the numbering starts at 0.
FilasDeGrupo_desde_cero(grupo) ==
    LET partes == Split(grupo.clave, Pipe)
    IN  [i \in 1..Len(grupo.ocurrencias) |->
            [nombre |-> partes[1],
             primerApellido |-> partes[2],
             segundoApellido |-> partes[3],
             cantidadOcurrencias |-> Len(grupo.ocurrencias),
             ocurrenciaNumero |-> i - 1,
             id |-> grupo.ocurrencias[i].id,
             institucion |-> grupo.ocurrencias[i].institucion,
             fechaActualizacion |-> grupo.ocurrencias[i].fechaActualizacion,
             rutaArchivo |-> grupo.ocurrencias[i].rutaArchivo]]

\* The rows of one duplicate group: enumerate(ocurrencias, 1)
FilasDeGrupo(grupo) ==
    LET partes == Split(grupo.clave, Pipe)
    IN  [i \in 1..Len(grupo.ocurrencias) |->
            [nombre |-> partes[1],
             primerApellido |-> partes[2],
             segundoApellido |-> partes[3],
             cantidadOcurrencias |-> Len(grupo.ocurrencias),
             ocurrenciaNumero |-> i,
             id |-> grupo.ocurrencias[i].id,
             institucion |-> grupo.ocurrencias[i].institucion,
             fechaActualizacion |-> grupo.ocurrencias[i].fechaActualizacion,
             rutaArchivo |-> grupo.ocurrencias[i].rutaArchivo]]

RECURSIVE Filas(_)
\* registros: the rows of all duplicate groups, in the dict's key order
Filas(duplicados) ==
    IF duplicados = <<>> THEN <<>>
    ELSE FilasDeGrupo(Head(duplicados)) \o Filas(Tail(duplicados))

\* generar_informe_duplicados: the value returned, the DataFrame built
\* (<<>> when none is) and the rows written to the sheet
\* 'Registros Duplicados'.  escritura_ok is FALSE when makedirs or
\* to_excel raises.  Every exception ends in `return False`.
generar_informe_duplicados(datos, escritura_ok) ==
    LET duplicados == Duplicados(datos)
    IN  IF duplicados = <<>>
        THEN [resultado |-> FALSE, df |-> <<>>, hoja |-> <<>>]
        ELSE IF \E i \in 1..Len(duplicados) :
                    LanzaDesempaquetar(duplicados[i].clave)
        THEN [resultado |-> FALSE, df |-> <<>>, hoja |-> <<>>]
        ELSE IF ~escritura_ok
        THEN [resultado |-> FALSE, df |-> Filas(duplicados), hoja |-> <<>>]
        ELSE [resultado |-> TRUE, df |-> Filas(duplicados),
              hoja |-> Filas(duplicados)]

\* ------------------------------------------------------------------------
\* Partitioned mode: detector_duplicados_1_v2.py, detector_duplicados_s1_v3.py
\* ------------------------------------------------------------------------
RECURSIVE leer_registros(_, _, _)
\* for registro in contenido: datos_persona = extraer_datos_persona(registro)
\*     if datos_persona: add rutaArchivo and append
leer_registros(contenido, ruta_completa, registros) ==
    IF contenido = <<>> THEN registros
    ELSE LET datos_persona == extraer_datos_persona(Head(contenido))
         IN  leer_registros(Tail(contenido), ruta_completa,
                 IF datos_persona # Ninguno
                 THEN Append(registros,
                          datos_persona[1] @@ ("rutaArchivo" :> ruta_completa))
                 ELSE registros)

\* One iteration of `for archivo in archivos_json` of
\* leer_archivos_json_directorio: the try around one file and its handler.
\* A file that raises keeps the records appended before the exception
\* (none: open and json.load come first, and iterating a non-iterable
\* content raises before the first element).
leer_archivo(archivo, registros, procesados) ==
    IF LanzaArchivo(archivo)
    THEN [registros |-> registros, archivos_procesados |-> procesados,
          excepcion |-> FALSE]
    ELSE [registros |-> leer_registros(Elementos(archivo), archivo.ruta,
                                       registros),
          archivos_procesados |-> procesados + 1,
          excepcion |-> FALSE]

\* df['nombreCompleto'].value_counts(), read at one name
value_counts(df, nombre_completo) ==
    Cardinality({i \in 1..Len(df) : df[i].nombreCompleto = nombre_completo})

\* df[df.duplicated(['nombreCompleto'], keep=False)]
duplicated(df) ==
    SelectSeq(df, LAMBDA fila : value_counts(df, fila.nombreCompleto) > 1)

\* duplicados.merge(conteo, on='nombreCompleto', how='left')
merge(duplicados, df) ==
    [i \in 1..Len(duplicados) |->
        duplicados[i] @@
        ("cantidadOcurrencias" :> value_counts(df, duplicados[i].nombreCompleto))]

\* Faulty variant: ascending=[True, True], the counts in ascending order.
Antes_ascendente(fila, otra) ==
    \/ fila.cantidadOcurrencias < otra.cantidadOcurrencias
    \/ /\ fila.cantidadOcurrencias = otra.cantidadOcurrencias
       /\ LexMenor(fila.nombreCompleto, otra.nombreCompleto)

\* The order of by=['cantidadOcurrencias', 'nombreCompleto'],
\* ascending=[False, True]: fila goes strictly before otra.
Antes(fila, otra) ==
    \/ fila.cantidadOcurrencias > otra.cantidadOcurrencias
    \/ /\ fila.cantidadOcurrencias = otra.cantidadOcurrencias
       /\ LexMenor(fila.nombreCompleto, otra.nombreCompleto)

\* fila put into an ordered sequence, after the rows it ties with
Insertar(ordenadas, fila) ==
    IF \E j \in 1..Len(ordenadas) : Antes(fila, ordenadas[j])
    THEN LET j == CHOOSE k \in 1..Len(ordenadas) :
                      /\ Antes(fila, ordenadas[k])
                      /\ \A m \in 1..(k - 1) : ~Antes(fila, ordenadas[m])
         IN  SubSeq(ordenadas, 1, j - 1) \o <<fila>> \o
             SubSeq(ordenadas, j, Len(ordenadas))
    ELSE Append(ordenadas, fila)

\* Faulty variant: the sort_values call dropped, the rows stay in batch order.
sort_values_omitido(filas) == filas

RECURSIVE sort_values(_)
\* DataFrame.sort_values on the two columns: pandas sorts several columns
\* with a stable sort, so rows that tie on both keep their order.
sort_values(filas) ==
    IF filas = <<>> THEN <<>>
    ELSE Insertar(sort_values(SubSeq(filas, 1, Len(filas) - 1)),
                  filas[Len(filas)])

\* analizar_duplicados: the duplicate rows and the number of distinct
\* duplicated names.  An empty DataFrame is <<>>.
analizar_duplicados(df) ==
    IF df = <<>> THEN [duplicados |-> <<>>, nombres |-> 0]
    ELSE LET duplicados == duplicated(df)
         IN  IF duplicados = <<>> THEN [duplicados |-> <<>>, nombres |-> 0]
             ELSE LET ordenados == sort_values(merge(duplicados, df))
                  IN  [duplicados |-> ordenados,
                       nombres |-> Cardinality(
                           {ordenados[i].nombreCompleto :
                               i \in 1..Len(ordenados)})]

\* ------------------------------------------------------------------------
\* Partitioned mode, the root: procesar_directorio_raiz and the sinks
\* ------------------------------------------------------------------------
\* An entry of the root directory:
\*   tipo     : "directorio", or "archivo" for a file directly in the root
\*   nombre   : its name
\*   listable : os.listdir of the directory succeeds
\*   archivos : the files directly inside it, in os.listdir order (for a
\*              root file: the file itself)
\*   nietos   : the .json files inside the directory's own subdirectories
\* os.path.isdir(os.path.join(dir_origen, d))
isdir(entrada) == entrada.tipo = "directorio"

\* [d for d in os.listdir(dir_origen) if os.path.isdir(...)]
Subdirectorios(entradas_raiz) == SelectSeq(entradas_raiz, isdir)

\* ruta_completa = os.path.join(directorio, archivo)
ruta_completa(directorio, archivo) == <<directorio.nombre, archivo.ruta>>

RECURSIVE leer_archivos(_, _, _, _)
\* for archivo in archivos_json: try ... except (log)
leer_archivos(directorio, archivos_json, lote, procesados) ==
    IF archivos_json = <<>>
    THEN [registros |-> lote, archivos_procesados |-> procesados,
          excepcion |-> FALSE]
    ELSE LET archivo == [Head(archivos_json) EXCEPT
                            !.ruta = ruta_completa(directorio, Head(archivos_json))]
             r == leer_archivo(archivo, lote, procesados)
         IN  leer_archivos(directorio, Tail(archivos_json), r.registros,
                           r.archivos_procesados)

\* Faulty variant: no try around os.listdir, so a directory that cannot be
\* listed raises out of the function.
leer_archivos_json_directorio_sin_try(directorio) ==
    IF ~directorio.listable
    THEN [registros |-> <<>>, archivos_procesados |-> 0, excepcion |-> TRUE]
    ELSE LET archivos_json == SelectSeq(directorio.archivos, EsJson)
         IN  IF archivos_json = <<>>
             THEN [registros |-> <<>>, archivos_procesados |-> 0,
                   excepcion |-> FALSE]
             ELSE leer_archivos(directorio, archivos_json, <<>>, 0)

\* Faulty variant: the files of the directory's subdirectories are read too.
leer_archivos_json_directorio_recursivo(directorio) ==
    IF ~directorio.listable
    THEN [registros |-> <<>>, archivos_procesados |-> 0, excepcion |-> FALSE]
    ELSE LET archivos_json ==
                 SelectSeq(directorio.archivos \o directorio.nietos, EsJson)
         IN  IF archivos_json = <<>>
             THEN [registros |-> <<>>, archivos_procesados |-> 0,
                   excepcion |-> FALSE]
             ELSE leer_archivos(directorio, archivos_json, <<>>, 0)

\* leer_archivos_json_directorio: the batch of one directory, the files
\* processed, and whether an exception leaves the function (the outer
\* handler catches every one, os.listdir's included).
leer_archivos_json_directorio(directorio) ==
    IF ~directorio.listable
    THEN [registros |-> <<>>, archivos_procesados |-> 0, excepcion |-> FALSE]
    ELSE LET archivos_json == SelectSeq(directorio.archivos, EsJson)
         IN  IF archivos_json = <<>>
             THEN [registros |-> <<>>, archivos_procesados |-> 0,
                   excepcion |-> FALSE]
             ELSE leer_archivos(directorio, archivos_json, <<>>, 0)

\* The directory's row of resultados_directorios and its duplicate rows:
\* without records the row counts zeros and the analyzer is not called.
analizar_directorio(subdir, lote, procesados) ==
    IF lote = <<>>
    THEN [duplicados |-> <<>>,
          fila |-> [directorio |-> subdir, archivos |-> procesados,
                    registros |-> 0, cantidadDuplicados |-> 0,
                    nombresDuplicados |-> 0]]
    ELSE LET r == analizar_duplicados(lote)
         IN  [duplicados |-> r.duplicados,
              fila |-> [directorio |-> subdir, archivos |-> procesados,
                        registros |-> Len(lote),
                        cantidadDuplicados |-> Len(r.duplicados),
                        nombresDuplicados |-> r.nombres]]

\* resumen.sort_values('cantidadDuplicados', ascending=False): the rows in
\* non-increasing order of cantidadDuplicados
OrdenadoPorDuplicados(filas) ==
    \A i \in 1..(Len(filas) - 1) :
        filas[i].cantidadDuplicados >= filas[i + 1].cantidadDuplicados

\* The orders sort_values may give: the sort of one column is quicksort,
\* which leaves the order of rows with equal counts open.
Resumenes(resultados) ==
    {[i \in 1..Len(resultados) |-> resultados[p[i]]] :
        p \in {q \in [1..Len(resultados) -> 1..Len(resultados)] :
                  /\ \A i, j \in 1..Len(resultados) : i # j => q[i] # q[j]
                  /\ OrdenadoPorDuplicados(
                         [i \in 1..Len(resultados) |-> resultados[q[i]]])}}

\* ---- the spreadsheet sink (detector_duplicados_1_v2.py) ----
\* Excel's limit on the length of a sheet name
MaxHoja == 31

\* 'Resumen'
Resumen == <<82, 101, 115, 117, 109, 101, 110>>

\* nombre_directorio[:31]
nombre_hoja(nombre_directorio) ==
    IF Len(nombre_directorio) <= MaxHoja THEN nombre_directorio
    ELSE SubSeq(nombre_directorio, 1, MaxHoja)

\* The workbook at ruta_destino:
\*   existe   : os.path.exists(ruta_destino)
\*   anterior  : the file is the one found there before the run
\*   eliminado : the run has removed the file found there
\*   hojas     : its sheets, [nombre, filas]
SinLibro ==
    [existe |-> FALSE, anterior |-> FALSE, eliminado |-> FALSE, hojas |-> <<>>]

\* A workbook left at ruta_destino by an earlier run
LibroAnterior ==
    [existe |-> TRUE, anterior |-> TRUE, eliminado |-> FALSE,
     hojas |-> <<[nombre |-> Resumen, filas |-> <<>>]>>]

\* df.to_excel(writer, sheet_name=...) through ExcelWriter(mode='a'), whose
\* if_sheet_exists is 'error': a sheet of that name makes it raise.
ExisteHoja(libro, nombre) ==
    \E i \in 1..Len(libro.hojas) : libro.hojas[i].nombre = nombre

\* guardar_excel: the workbook afterwards and the value returned.
\* escritura_ok is FALSE when makedirs, the writer or to_excel raises.
guardar_excel(libro, filas, nombre_directorio, escritura_ok) ==
    IF ~escritura_ok THEN [libro |-> libro, resultado |-> FALSE]
    ELSE IF libro.existe
    THEN IF ExisteHoja(libro, nombre_hoja(nombre_directorio))
         THEN [libro |-> libro, resultado |-> FALSE]
         ELSE [libro |-> [libro EXCEPT !.hojas =
                             Append(@, [nombre |-> nombre_hoja(nombre_directorio),
                                        filas |-> filas])],
               resultado |-> TRUE]
    ELSE [libro |-> [libro EXCEPT
                        !.existe = TRUE,
                        !.hojas = <<[nombre |-> nombre_hoja(nombre_directorio),
                                     filas |-> filas]>>],
          resultado |-> TRUE]

\* crear_hoja_resumen: ExcelWriter(mode='a') needs the workbook to exist;
\* without it, or with a sheet 'Resumen' in it, the writer raises.
crear_hoja_resumen(libro, resumen_ordenado, escritura_ok) ==
    IF ~escritura_ok \/ ~libro.existe \/ ExisteHoja(libro, Resumen)
    THEN [libro |-> libro, resultado |-> FALSE]
    ELSE [libro |-> [libro EXCEPT !.hojas =
                        Append(@, [nombre |-> Resumen,
                                   filas |-> resumen_ordenado])],
          resultado |-> TRUE]

\* Faulty variant: the file found at ruta_destino is kept and appended to.
eliminar_anterior_omitido(libro, eliminar_ok) ==
    [libro |-> libro, resultado |-> TRUE]

\* if os.path.exists(ruta_destino): os.remove(ruta_destino), which returns
\* False from procesar_directorio_raiz when it raises
eliminar_anterior(libro, eliminar_ok) ==
    IF ~libro.existe THEN [libro |-> libro, resultado |-> TRUE]
    ELSE IF eliminar_ok
    THEN [libro |-> [SinLibro EXCEPT !.eliminado = TRUE], resultado |-> TRUE]
    ELSE [libro |-> libro, resultado |-> FALSE]

\* ---- the delimited-text sink (detector_duplicados_s1_v3.py) ----
\* '/', '\' and '_'
Barra == 47
BarraInversa == 92
Guion == 95

\* nombre_directorio.replace('/', '_').replace('\\', '_').replace(' ', '_')
nombre_archivo_seguro(nombre_directorio) ==
    [i \in 1..Len(nombre_directorio) |->
        IF nombre_directorio[i] \in {Barra, BarraInversa, Espacio}
        THEN Guion ELSE nombre_directorio[i]]

\* f"duplicados_{nombre_archivo_seguro}.csv" and the timestamped
\* f"resumen_duplicados_{...}.csv"
nombre_archivo_csv(nombre_directorio) ==
    <<"duplicados", nombre_archivo_seguro(nombre_directorio)>>
nombre_archivo_resumen == <<"resumen_duplicados", <<>>>>

\* to_csv(ruta): the file of that name in that directory is (over)written
Escribir(escritos, en, nombre, filas) ==
    {f \in escritos : ~(f.en = en /\ f.nombre = nombre)}
    \cup {[en |-> en, nombre |-> nombre, filas |-> filas]}

\* verificar_permisos_directorio: the value returned and whether the
\* directory exists afterwards.  p describes the destination:
\*   existe (os.path.exists), crea_ok (makedirs succeeds), es_directorio,
\*   acceso (os.access W_OK), sistema, chmod_ok (chmod succeeds and gives
\*   access), prueba_ok (the test file can be written and removed)
verificar_permisos_directorio(p) ==
    IF ~p.existe /\ ~p.crea_ok THEN [resultado |-> FALSE, existe |-> FALSE]
    ELSE IF ~p.es_directorio /\ p.existe
    THEN [resultado |-> FALSE, existe |-> TRUE]
    ELSE IF ~p.acceso
    THEN [resultado |-> p.sistema # "Windows" /\ p.chmod_ok, existe |-> TRUE]
    ELSE [resultado |-> p.prueba_ok, existe |-> TRUE]

\* Faulty variant: usar_temp is ignored, the table goes to the destination
\* asked for.
guardar_csv_en_destino(escritos, filas, directorio_destino, nombre_directorio, usar_temporal, escritura, temporal_ok) ==
    IF escritura = "ok"
    THEN [csv |-> Escribir(escritos, "destino",
                           nombre_archivo_csv(nombre_directorio), filas),
          resultado |-> TRUE]
    ELSE [csv |-> escritos, resultado |-> FALSE]

\* guardar_csv: the files written afterwards and the value returned.
\* The directory handed over exists (the destination was verified, or it
\* is the temporary directory).  escritura is what to_csv does in the
\* directory handed over: "ok", "permiso" (raises 'Permission denied') or
\* "error"; temporal_ok is whether to_csv succeeds in the temporary one.
guardar_csv(escritos, filas, directorio_destino, nombre_directorio, usar_temporal, escritura, temporal_ok) ==
    LET en == IF usar_temporal THEN "temporal" ELSE directorio_destino
        nombre == nombre_archivo_csv(nombre_directorio)
    IN  IF en = "temporal"
        THEN IF temporal_ok
             THEN [csv |-> Escribir(escritos, en, nombre, filas),
                   resultado |-> TRUE]
             ELSE [csv |-> escritos, resultado |-> FALSE]
        ELSE IF escritura = "ok"
        THEN [csv |-> Escribir(escritos, en, nombre, filas), resultado |-> TRUE]
        ELSE IF escritura = "permiso" /\ temporal_ok
        THEN [csv |-> Escribir(escritos, "temporal", nombre, filas),
              resultado |-> TRUE]
        ELSE [csv |-> escritos, resultado |-> FALSE]

\* guardar_resumen: as guardar_csv, except that any failure of to_csv in
\* the destination is retried in the temporary directory.
guardar_resumen(escritos, resumen_ordenado, directorio_destino, usar_temporal, escritura, temporal_ok) ==
    LET en == IF usar_temporal THEN "temporal" ELSE directorio_destino
    IN  IF en = "temporal"
        THEN IF temporal_ok
             THEN [csv |-> Escribir(escritos, en, nombre_archivo_resumen,
                                    resumen_ordenado),
                   resultado |-> TRUE]
             ELSE [csv |-> escritos, resultado |-> FALSE]
        ELSE IF escritura = "ok"
        THEN [csv |-> Escribir(escritos, en, nombre_archivo_resumen,
                               resumen_ordenado),
              resultado |-> TRUE]
        ELSE IF temporal_ok
        THEN [csv |-> Escribir(escritos, "temporal", nombre_archivo_resumen,
                               resumen_ordenado),
              resultado |-> TRUE]
        ELSE [csv |-> escritos, resultado |-> FALSE]

\* main: the exit status.  v1 and v2 return 0 whatever the report
\* returned; v3 returns 1 when procesar_directorio_raiz returned False.
main(version, resultado_informe) ==
    IF version = "csv" THEN (IF resultado_informe THEN 0 ELSE 1) ELSE 0

\* ------------------------------------------------------------------------
\* Inputs
\* ------------------------------------------------------------------------
NombreAA == <<97, 32, 97>>
NombreAPipeA == <<97, 124, 97>>

\* ("a", "a", "") with id 1 and with id 2; ("b", "a", "a")
PersonaA1 == Registro(<<LetraA>>, <<LetraA>>, <<Vacia>>, <<"1">>)
PersonaA2 == Registro(<<LetraA>>, <<LetraA>>, <<Vacia>>, <<"2">>)
PersonaB == Registro(<<LetraB>>, <<LetraA>>, <<LetraA>>, <<"1">>)
\* ("a a", "a", "") and ("a", "a a", ""): names that hold a space
EspacioEnNombre == Registro(<<NombreAA>>, <<LetraA>>, <<Vacia>>, <<"1">>)
EspacioEnApellido == Registro(<<LetraA>>, <<NombreAA>>, <<Vacia>>, <<"2">>)
\* ("a|a", "a", "") and ("a", "a|a", ""): names that hold a '|'
PipeEnNombre == Registro(<<NombreAPipeA>>, <<LetraA>>, <<Vacia>>, <<"1">>)
PipeEnApellido == Registro(<<LetraA>>, <<NombreAPipeA>>, <<Vacia>>, <<"2">>)
\* datosGenerales without the three name keys; empty strings; one of
\* nombre and primerApellido empty
SinNombres == Registro(<<>>, <<>>, <<>>, <<>>)
NombresVacios == Registro(<<Vacia>>, <<Vacia>>, <<Vacia>>, <<"1">>)
SinApellido == Registro(<<LetraA>>, <<Vacia>>, <<Vacia>>, <<"1">>)
SinNombre == Registro(<<Vacia>>, <<LetraA>>, <<LetraA>>, <<"2">>)
\* an element that is a number; an element whose metadata is a number
ElementoEscalar == [PersonaA1 EXCEPT !.forma = "escalar"]
MetadataEscalar == [PersonaA2 EXCEPT !.metadata = "escalar"]

\* The elements one run draws its files from: a run mixes the two elements
\* of one of these sets.  '|' matters to the whole-tree key only, ' ' to
\* nombreCompleto only.
Universos(m) ==
    {{PersonaA1, PersonaA2}, {PersonaA1, PersonaB},
     {PersonaA1, ElementoEscalar}, {PersonaA1, MetadataEscalar}}
    \cup (IF m = "arbol"
          THEN {{PipeEnNombre, PipeEnApellido}, {PersonaA1, NombresVacios},
                {SinApellido, SinNombre}}
          ELSE {{EspacioEnNombre, EspacioEnApellido},
                {NombresVacios, SinNombres}})

SeqsHasta(S, n) == UNION {[1..k -> S] : k \in 0..n}

\* The files a walk can meet at path `ruta`
ArchivosPosibles(elementos, ruta) ==
    {[ruta |-> ruta, extension |-> ".txt", lectura |-> "ok",
      forma |-> "lista", contenido |-> <<>>],
     [ruta |-> ruta, extension |-> ".json", lectura |-> "error",
      forma |-> "lista", contenido |-> <<>>],
     [ruta |-> ruta, extension |-> ".json", lectura |-> "ok",
      forma |-> "escalar", contenido |-> <<>>]}
    \cup {[ruta |-> ruta, extension |-> ".json", lectura |-> "ok",
           forma |-> "dict", contenido |-> r] : r \in elementos}
    \cup {[ruta |-> ruta, extension |-> ".json", lectura |-> "ok",
           forma |-> "lista", contenido |-> c] :
              c \in SeqsHasta(elementos, MaxRegistros)}

\* The elements the walk reads from a file
NumElementos(archivo) ==
    IF EsJson(archivo) /\ ~LanzaArchivo(archivo)
    THEN Len(Elementos(archivo)) ELSE 0

RECURSIVE Leidos(_)
Leidos(visitados) ==
    IF visitados = <<>> THEN 0
    ELSE NumElementos(Head(visitados)) + Leidos(Tail(visitados))

\* Every shape of element, for the extractor alone
FormasDeRegistro ==
    [forma : {"dict", "lista", "escalar"},
     declaracion : {"ausente", "escalar", "dict"},
     situacionPatrimonial : {"ausente", "escalar", "dict"},
     datosGenerales : {"ausente", "vacio", "escalar", "dict"},
     nombre : {<<>>, <<Vacia>>, <<LetraA>>},
     primerApellido : {<<>>, <<Vacia>>, <<LetraA>>},
     segundoApellido : {<<>>, <<Vacia>>, <<LetraA>>},
     id : {<<>>, <<"1">>},
     metadata : {"ausente", "escalar", "dict"},
     institucion : {<<>>, <<"X">>},
     actualizacion : {<<>>},
     tipo : {<<>>}]

\* The records of a batch handed to the analyzer alone
Personas ==
    {extraer_datos_persona(r)[1] @@ ("rutaArchivo" :> 1) :
        r \in {PersonaA1, PersonaA2, PersonaB,
               EspacioEnNombre, EspacioEnApellido}}
    \cup {extraer_datos_persona(PersonaA1)[1] @@ ("rutaArchivo" :> 2)}

\* ---- the entries of a root ----
\* subdirectories of the root processed in one run
MaxDirectorios == 2

\* A .json file that holds the array `contenido`
ArchivoJson(ruta, contenido) ==
    [ruta |-> ruta, extension |-> ".json", lectura |-> "ok",
     forma |-> "lista", contenido |-> contenido]

ArchivoTxt(ruta) ==
    [ruta |-> ruta, extension |-> ".txt", lectura |-> "ok",
     forma |-> "lista", contenido |-> <<>>]

Directorio(nombre, listable, ficheros, nietos) ==
    [tipo |-> "directorio", nombre |-> nombre, listable |-> listable,
     archivos |-> ficheros, nietos |-> nietos]

\* A .json file directly in the root
ArchivoEnRaiz(nombre, contenido) ==
    [tipo |-> "archivo", nombre |-> nombre, listable |-> FALSE,
     archivos |-> <<ArchivoJson(1, contenido)>>, nietos |-> <<>>]

\* directory names: "a_a", "c", and two names of 32 characters that agree
\* on the first 31
NombreAGuionA == <<97, 95, 97>>
LetraC == <<99>>
NombreLargoB == [i \in 1..(MaxHoja + 1) |-> IF i = MaxHoja + 1 THEN 98 ELSE 97]
NombreLargoC == [i \in 1..(MaxHoja + 1) |-> IF i = MaxHoja + 1 THEN 99 ELSE 97]

\* what a directory holds: two records of one identity, three of another,
\* one record, two identities that join to one nombreCompleto
DosIguales == <<ArchivoJson(1, <<PersonaA1, PersonaA2>>)>>
TresIguales == <<ArchivoJson(1, <<PersonaB, PersonaB>>),
                 ArchivoJson(2, <<PersonaB>>)>>
UnoSolo == <<ArchivoJson(1, <<PersonaA1>>)>>
DosQueChocan == <<ArchivoJson(1, <<EspacioEnNombre, EspacioEnApellido>>)>>

\* The entries one root is drawn from: a run meets entries of one of these
\* sets, each name once.
Raices(m) ==
    {\* a directory that cannot be listed, one without .json files, one
     \* with duplicates
     {Directorio(LetraA, FALSE, DosIguales, <<>>),
      Directorio(LetraB, TRUE, DosIguales, <<>>),
      Directorio(NombreAA, TRUE, <<ArchivoTxt(1)>>, <<>>)},
     \* one identity once in each of two directories, a .json file in the
     \* root, .json files in a grandchild directory
     {Directorio(LetraA, TRUE, UnoSolo, <<>>),
      Directorio(LetraB, TRUE, UnoSolo, <<>>),
      ArchivoEnRaiz(LetraC, <<PersonaA1, PersonaA2>>),
      Directorio(NombreAA, TRUE, UnoSolo, <<ArchivoJson(2, <<PersonaA1>>)>>)},
     \* different numbers of duplicate rows; identities that join to one
     \* nombreCompleto
     {Directorio(LetraA, TRUE, DosQueChocan, <<>>),
      Directorio(LetraB, TRUE, TresIguales, <<>>),
      Directorio(LetraC, TRUE, DosIguales, <<>>)}}
    \cup (IF m = "excel"
          THEN {\* names that agree on their first 31 characters; a
                \* directory called 'Resumen'
                {Directorio(NombreLargoB, TRUE, DosIguales, <<>>),
                 Directorio(NombreLargoC, TRUE, TresIguales, <<>>),
                 Directorio(Resumen, TRUE, DosIguales, <<>>)}}
          ELSE {\* names that differ in ' ' against '_' only
                {Directorio(NombreAA, TRUE, DosIguales, <<>>),
                 Directorio(NombreAGuionA, TRUE, TresIguales, <<>>),
                 Directorio(LetraA, TRUE, UnoSolo, <<>>)}})

\* What verificar_permisos_directorio can find at a destination that
\* exists or not
Permisos(existe) ==
    [existe : {existe}, crea_ok : BOOLEAN, es_directorio : BOOLEAN,
     acceso : BOOLEAN, sistema : {"Windows", "Linux"}, chmod_ok : BOOLEAN,
     prueba_ok : BOOLEAN]

\* ------------------------------------------------------------------------
\* State
\* ------------------------------------------------------------------------
VARIABLES
    modo,                    \* "arbol", "particionado", "extractor", "analizador",
                             \* "excel", "csv"
    entradas,                \* the elements the files of this run hold
    pc,                      \* position of the run
    archivos,                \* the files of the walk met so far, in order
    interrumpido,            \* an exception left the loop over the files
    datos_personas,          \* whole-tree accumulator: <<[clave, ocurrencias]>>
    archivos_procesados,     \* the walker's counter
    resultado,               \* <<value returned by generar_informe_duplicados>>
    df,                      \* whole-tree report: the DataFrame built
    hoja,                    \* rows written to 'Registros Duplicados'
    registros,               \* partitioned batch: records of one directory
    duplicados_df,           \* analizar_duplicados: the duplicate rows
    num_nombres_duplicados,  \* analizar_duplicados: distinct duplicated names
    registro,                \* extractor alone: the element
    datos_persona,           \* extractor alone: <<value returned>>
    raiz,                    \* root run: the entries of the root met so far
    libro,                   \* root run: the workbook at ruta_destino
    destino_existe,          \* root run: the destination directory exists
    permisos_ok,             \* root run: <<verificar_permisos_directorio(...)>>
    dir_destino,             \* root run: "destino" or "temporal"
    usar_temp,               \* root run: the local usar_temp
    csv,                     \* root run: the files written, [en, nombre, filas]
    resultados_directorios,  \* root run: one row per directory processed
    resumen,                 \* root run: the summary built, sorted
    retorno,                 \* <<value returned by procesar_directorio_raiz>>
    salida                   \* <<exit status of main>>

\* The state of the run over a root, and the state of one batch
vars_raiz == <<raiz, libro, destino_existe, permisos_ok, dir_destino,
               usar_temp, csv, resultados_directorios, resumen, retorno>>

vars_lote == <<archivos, interrumpido, datos_personas, archivos_procesados,
               resultado, df, hoja, registros, duplicados_df,
               num_nombres_duplicados, registro, datos_persona>>

vars == <<modo, entradas, pc, archivos, interrumpido, datos_personas,
          archivos_procesados, resultado, df, hoja, registros,
          duplicados_df, num_nombres_duplicados, registro, datos_persona,
          raiz, libro, destino_existe, permisos_ok, dir_destino, usar_temp,
          csv, resultados_directorios, resumen, retorno, salida>>

\* No run over a root has started
SinRaiz ==
    /\ raiz = <<>>
    /\ libro = SinLibro
    /\ destino_existe = TRUE
    /\ permisos_ok = <<>>
    /\ dir_destino = "destino"
    /\ usar_temp = FALSE
    /\ csv = {}
    /\ resultados_directorios = <<>>
    /\ resumen = <<>>
    /\ retorno = <<>>
    /\ salida = <<>>

Init ==
    /\ modo \in {"arbol", "particionado"}
    /\ entradas \in Universos(modo)
    /\ pc = IF modo = "arbol" THEN "explorar" ELSE "leer"
    /\ archivos = <<>>
    /\ interrumpido = FALSE
    /\ datos_personas = <<>>
    /\ archivos_procesados = 0
    /\ resultado = <<>>
    /\ df = <<>>
    /\ hoja = <<>>
    /\ registros = <<>>
    /\ duplicados_df = <<>>
    /\ num_nombres_duplicados = 0
    /\ registro = Ninguno
    /\ datos_persona = Ninguno
    /\ SinRaiz

\* explorar_directorios: one file of os.walk
ExplorarArchivo ==
    /\ modo = "arbol"
    /\ pc = "explorar"
    /\ ~interrumpido
    /\ Len(archivos) < MaxArchivos
    /\ \E archivo \in ArchivosPosibles(entradas, Len(archivos) + 1) :
          /\ Leidos(archivos) + NumElementos(archivo) <= MaxTotal
          /\ archivos' = Append(archivos, archivo)
          /\ IF ~EsJson(archivo)
             THEN UNCHANGED <<datos_personas, archivos_procesados, interrumpido>>
             ELSE LET r == procesar_archivo_json(archivo, datos_personas)
                  IN  /\ datos_personas' = r.datos
                      /\ interrumpido' = r.excepcion
                      /\ archivos_procesados' =
                             IF r.excepcion THEN archivos_procesados
                             ELSE archivos_procesados + 1
    /\ UNCHANGED <<modo, entradas, pc, resultado, df, hoja, registros,
                   duplicados_df, num_nombres_duplicados, registro,
                   datos_persona, salida>>
    /\ UNCHANGED vars_raiz

\* main: the walk is over, generar_informe_duplicados(datos_personas, ...)
GenerarInforme ==
    /\ modo = "arbol"
    /\ pc = "explorar"
    /\ \E escritura_ok \in BOOLEAN :
          LET r == generar_informe_duplicados(datos_personas, escritura_ok)
          IN  /\ resultado' = <<r.resultado>>
              /\ df' = r.df
              /\ hoja' = r.hoja
              /\ salida' = <<main(modo, r.resultado)>>
    /\ pc' = "terminado"
    /\ UNCHANGED <<modo, entradas, archivos, interrumpido, datos_personas,
                   archivos_procesados, registros, duplicados_df,
                   num_nombres_duplicados, registro, datos_persona>>
    /\ UNCHANGED vars_raiz

\* leer_archivos_json_directorio: one file of the directory
LeerArchivo ==
    /\ modo = "particionado"
    /\ pc = "leer"
    /\ ~interrumpido
    /\ Len(archivos) < MaxArchivos
    /\ \E archivo \in ArchivosPosibles(entradas, Len(archivos) + 1) :
          /\ Leidos(archivos) + NumElementos(archivo) <= MaxTotal
          /\ archivos' = Append(archivos, archivo)
          /\ IF ~EsJson(archivo)
             THEN UNCHANGED <<registros, archivos_procesados, interrumpido>>
             ELSE LET r == leer_archivo(archivo, registros, archivos_procesados)
                  IN  /\ registros' = r.registros
                      /\ archivos_procesados' = r.archivos_procesados
                      /\ interrumpido' = r.excepcion
    /\ UNCHANGED <<modo, entradas, pc, datos_personas, resultado, df, hoja,
                   duplicados_df, num_nombres_duplicados, registro,
                   datos_persona, salida>>
    /\ UNCHANGED vars_raiz

\* procesar_directorio_raiz: the directory is read; without records the
\* directory counts 0 duplicates, else analizar_duplicados(df)
AnalizarDuplicados ==
    /\ modo = "particionado"
    /\ pc = "leer"
    /\ LET r == IF registros = <<>>
                THEN [duplicados |-> <<>>, nombres |-> 0]
                ELSE analizar_duplicados(registros)
       IN  /\ duplicados_df' = r.duplicados
           /\ num_nombres_duplicados' = r.nombres
    /\ pc' = "terminado"
    /\ UNCHANGED <<modo, entradas, archivos, interrumpido, datos_personas,
                   archivos_procesados, resultado, df, hoja, registros,
                   registro, datos_persona, salida>>
    /\ UNCHANGED vars_raiz

Next ==
    \/ ExplorarArchivo
    \/ GenerarInforme
    \/ LeerArchivo
    \/ AnalizarDuplicados

Spec == Init /\ [][Next]_vars

\* ------------------------------------------------------------------------
\* The extractor alone: extraer_datos_persona on every shape of element
\* ------------------------------------------------------------------------
InitExtraer ==
    /\ modo = "extractor"
    /\ entradas = {}
    /\ pc = "extraer"
    /\ registro \in FormasDeRegistro
    /\ datos_persona = Ninguno
    /\ archivos = <<>>
    /\ interrumpido = FALSE
    /\ datos_personas = <<>>
    /\ archivos_procesados = 0
    /\ resultado = <<>>
    /\ df = <<>>
    /\ hoja = <<>>
    /\ registros = <<>>
    /\ duplicados_df = <<>>
    /\ num_nombres_duplicados = 0
    /\ SinRaiz

ExtraerDatosPersona ==
    /\ modo = "extractor"
    /\ pc = "extraer"
    /\ datos_persona' = extraer_datos_persona(registro)
    /\ pc' = "extraido"
    /\ UNCHANGED <<modo, entradas, archivos, interrumpido, datos_personas,
                   archivos_procesados, resultado, df, hoja, registros,
                   duplicados_df, num_nombres_duplicados, registro, salida>>
    /\ UNCHANGED vars_raiz

SpecExtraer == InitExtraer /\ [][ExtraerDatosPersona]_vars

\* ------------------------------------------------------------------------
\* The analyzer alone: analizar_duplicados on a batch and on the same
\* records in another order
\* ------------------------------------------------------------------------
InitAnalizador ==
    /\ modo = "analizador"
    /\ entradas = {}
    /\ pc = "lote"
    /\ registros \in SeqsHasta(Personas, MaxLote)
    /\ duplicados_df = <<>>
    /\ num_nombres_duplicados = 0
    /\ archivos = <<>>
    /\ interrumpido = FALSE
    /\ datos_personas = <<>>
    /\ archivos_procesados = 0
    /\ resultado = <<>>
    /\ df = <<>>
    /\ hoja = <<>>
    /\ registro = Ninguno
    /\ datos_persona = Ninguno
    /\ SinRaiz

\* analizar_duplicados(df) on the batch
AnalizarLote ==
    /\ modo = "analizador"
    /\ pc = "lote"
    /\ LET r == analizar_duplicados(registros)
       IN  /\ duplicados_df' = r.duplicados
           /\ num_nombres_duplicados' = r.nombres
    /\ pc' = "analizado"
    /\ UNCHANGED <<modo, entradas, archivos, interrumpido, datos_personas,
                   archivos_procesados, resultado, df, hoja, registros,
                   registro, datos_persona, salida>>
    /\ UNCHANGED vars_raiz

\* The same records with two neighbours exchanged, analysed again
Reordenar ==
    /\ modo = "analizador"
    /\ pc \in {"analizado", "reordenado"}
    /\ \E i \in 1..(Len(registros) - 1) :
          /\ registros[i] # registros[i + 1]
          /\ registros' = [registros EXCEPT ![i] = registros[i + 1],
                                            ![i + 1] = registros[i]]
    /\ LET r == analizar_duplicados(registros')
       IN  /\ duplicados_df' = r.duplicados
           /\ num_nombres_duplicados' = r.nombres
    /\ pc' = "reordenado"
    /\ UNCHANGED <<modo, entradas, archivos, interrumpido, datos_personas,
                   archivos_procesados, resultado, df, hoja, registro,
                   datos_persona, salida>>
    /\ UNCHANGED vars_raiz

NextAnalizador ==
    \/ AnalizarLote
    \/ Reordenar

SpecAnalizador == InitAnalizador /\ [][NextAnalizador]_vars

\* ------------------------------------------------------------------------
\* The run over a root: procesar_directorio_raiz and main of v2 ("excel")
\* and of v3 ("csv")
\* ------------------------------------------------------------------------
InitRaiz ==
    /\ modo \in {"excel", "csv"}
    /\ entradas \in Raices(modo)
    /\ pc = "inicio"
    /\ raiz = <<>>
    /\ libro \in IF modo = "excel" THEN {SinLibro, LibroAnterior}
                 ELSE {SinLibro}
    /\ destino_existe \in IF modo = "csv" THEN BOOLEAN ELSE {TRUE}
    /\ permisos_ok = <<>>
    /\ dir_destino = "destino"
    /\ usar_temp = FALSE
    /\ csv = {}
    /\ resultados_directorios = <<>>
    /\ resumen = <<>>
    /\ retorno = <<>>
    /\ salida = <<>>
    /\ archivos = <<>>
    /\ interrumpido = FALSE
    /\ datos_personas = <<>>
    /\ archivos_procesados = 0
    /\ resultado = <<>>
    /\ df = <<>>
    /\ hoja = <<>>
    /\ registros = <<>>
    /\ duplicados_df = <<>>
    /\ num_nombres_duplicados = 0
    /\ registro = Ninguno
    /\ datos_persona = Ninguno

\* procesar_directorio_raiz of v2 up to the listing of the root: the test
\* of dir_origen, the removal of the file found at ruta_destino, os.listdir
IniciarExcel ==
    /\ modo = "excel"
    /\ pc = "inicio"
    /\ \E origen_ok, eliminar_ok, listar_ok \in BOOLEAN :
          LET r == eliminar_anterior(libro, eliminar_ok)
          IN  IF ~origen_ok
              THEN /\ retorno' = <<FALSE>>
                   /\ pc' = "retornado"
                   /\ UNCHANGED libro
              ELSE IF ~r.resultado
              THEN /\ retorno' = <<FALSE>>
                   /\ pc' = "retornado"
                   /\ UNCHANGED libro
              ELSE /\ libro' = r.libro
                   /\ IF listar_ok
                      THEN pc' = "subdirectorios" /\ UNCHANGED retorno
                      ELSE pc' = "retornado" /\ retorno' = <<FALSE>>
    /\ UNCHANGED <<modo, entradas, raiz, destino_existe, permisos_ok,
                   dir_destino, usar_temp, csv, resultados_directorios,
                   resumen, salida>>
    /\ UNCHANGED vars_lote

\* procesar_directorio_raiz of v3 up to the listing of the root: the test
\* of dir_origen, --temporal, verificar_permisos_directorio and the
\* fallback to the temporary directory, os.listdir
IniciarCsv ==
    /\ modo = "csv"
    /\ pc = "inicio"
    /\ \E origen_ok, temporal, listar_ok \in BOOLEAN :
       \E p \in Permisos(destino_existe) :
          IF ~origen_ok
          THEN /\ retorno' = <<FALSE>>
               /\ pc' = "retornado"
               /\ UNCHANGED <<destino_existe, permisos_ok, dir_destino,
                              usar_temp>>
          ELSE /\ IF temporal
                  THEN /\ usar_temp' = TRUE
                       /\ dir_destino' = "temporal"
                       /\ UNCHANGED <<destino_existe, permisos_ok>>
                  ELSE LET v == verificar_permisos_directorio(p)
                       IN  /\ permisos_ok' = <<v.resultado>>
                           /\ destino_existe' = v.existe
                           /\ usar_temp' = ~v.resultado
                           /\ dir_destino' = IF v.resultado THEN "destino"
                                             ELSE "temporal"
               /\ IF listar_ok
                  THEN pc' = "subdirectorios" /\ UNCHANGED retorno
                  ELSE pc' = "retornado" /\ retorno' = <<FALSE>>
    /\ UNCHANGED <<modo, entradas, raiz, libro, csv, resultados_directorios,
                   resumen, salida>>
    /\ UNCHANGED vars_lote

\* One entry of the root: an entry that is not a directory is left out of
\* subdirectorios; a directory is one round of `for i, subdir in
\* enumerate(subdirectorios, 1)`
ProcesarEntrada ==
    /\ modo \in {"excel", "csv"}
    /\ pc = "subdirectorios"
    /\ Len(raiz) < MaxDirectorios
    /\ \E entrada \in entradas :
       \E escritura \in {"ok", "permiso", "error"} :
       \E temporal_ok \in BOOLEAN :
          /\ \A i \in 1..Len(raiz) : raiz[i].nombre # entrada.nombre
          /\ raiz' = Append(raiz, entrada)
          /\ IF ~isdir(entrada)
             THEN UNCHANGED <<pc, libro, csv, resultados_directorios, retorno>>
             ELSE LET lectura == leer_archivos_json_directorio(entrada)
                      a == analizar_directorio(entrada.nombre,
                               lectura.registros, lectura.archivos_procesados)
                  IN  IF lectura.excepcion
                      THEN /\ retorno' = <<FALSE>>
                           /\ pc' = "retornado"
                           /\ UNCHANGED <<libro, csv, resultados_directorios>>
                      ELSE /\ resultados_directorios' =
                                  Append(resultados_directorios, a.fila)
                           /\ libro' =
                                  IF modo = "excel" /\ a.duplicados # <<>>
                                  THEN guardar_excel(libro, a.duplicados,
                                           entrada.nombre,
                                           escritura = "ok").libro
                                  ELSE libro
                           /\ csv' =
                                  IF modo = "csv" /\ a.duplicados # <<>>
                                  THEN guardar_csv(csv, a.duplicados,
                                           dir_destino, entrada.nombre,
                                           usar_temp, escritura,
                                           temporal_ok).csv
                                  ELSE csv
                           /\ UNCHANGED <<pc, retorno>>
    /\ UNCHANGED <<modo, entradas, destino_existe, permisos_ok, dir_destino,
                   usar_temp, resumen, salida>>
    /\ UNCHANGED vars_lote

\* The loop over the subdirectories is over: v3 returns False for a root
\* without subdirectories; else the summary is built and handed to the
\* sink, and procesar_directorio_raiz returns True
Finalizar ==
    /\ modo \in {"excel", "csv"}
    /\ pc = "subdirectorios"
    /\ IF modo = "csv" /\ Subdirectorios(raiz) = <<>>
       THEN /\ retorno' = <<FALSE>>
            /\ UNCHANGED <<libro, csv, resumen>>
       ELSE IF resultados_directorios = <<>>
       THEN /\ retorno' = <<TRUE>>
            /\ UNCHANGED <<libro, csv, resumen>>
       ELSE \E resumen_df \in Resumenes(resultados_directorios) :
            \E escritura \in {"ok", "error"} :
            \E temporal_ok \in BOOLEAN :
               /\ resumen' = resumen_df
               /\ libro' = IF modo = "excel"
                           THEN crear_hoja_resumen(libro, resumen_df,
                                    escritura = "ok").libro
                           ELSE libro
               /\ csv' = IF modo = "csv"
                         THEN guardar_resumen(csv, resumen_df, dir_destino,
                                  usar_temp, escritura, temporal_ok).csv
                         ELSE csv
               /\ retorno' = <<TRUE>>
    /\ pc' = "retornado"
    /\ UNCHANGED <<modo, entradas, raiz, destino_existe, permisos_ok,
                   dir_destino, usar_temp, resultados_directorios, salida>>
    /\ UNCHANGED vars_lote

\* main: procesar_directorio_raiz has returned, the exit status
Salir ==
    /\ modo \in {"excel", "csv"}
    /\ pc = "retornado"
    /\ salida' = <<main(modo, retorno[1])>>
    /\ pc' = "terminado"
    /\ UNCHANGED <<modo, entradas>>
    /\ UNCHANGED vars_raiz
    /\ UNCHANGED vars_lote

NextRaiz ==
    \/ IniciarExcel
    \/ IniciarCsv
    \/ ProcesarEntrada
    \/ Finalizar
    \/ Salir

SpecRaiz == InitRaiz /\ [][NextRaiz]_vars

\* ------------------------------------------------------------------------
\* Properties
\* ------------------------------------------------------------------------
\* The identity of a record or of an output row
Tupla(r) == <<r.nombre, r.primerApellido, r.segundoApellido>>

RECURSIVE Acumulados(_)
\* The records the accumulator holds
Acumulados(datos) ==
    IF datos = <<>> THEN <<>>
    ELSE Head(datos).ocurrencias \o Acumulados(Tail(datos))

\* The batch handed to the duplicate analysis, and the rows it yields
Lote == IF modo = "arbol" THEN Acumulados(datos_personas) ELSE registros
FilasDeSalida == IF modo = "arbol" THEN df ELSE duplicados_df
Analizado == modo \in {"arbol", "particionado"} /\ pc = "terminado"

\* The records of a batch that have the identity t
Cuenta(lote, t) == Cardinality({i \in 1..Len(lote) : Tupla(lote[i]) = t})

\* A row that reports the record rec
Coincide(fila, rec) ==
    /\ Tupla(fila) = Tupla(rec)
    /\ fila.id = rec.id
    /\ fila.rutaArchivo = rec.rutaArchivo

\* C1: in both modes, cantidadOcurrencias of every output row is the number
\* of records of the batch whose (nombre, primerApellido, segundoApellido)
\* equals the row's, component by component.
C1_CantidadPorTupla ==
    Analizado =>
        \A i \in 1..Len(FilasDeSalida) :
            FilasDeSalida[i].cantidadOcurrencias =
                Cuenta(Lote, Tupla(FilasDeSalida[i]))

\* C2: in whole-tree mode two records are in the same group of the
\* accumulator exactly when their tuples are equal, whatever the names hold.
C2_GrupoSiiTupla ==
    modo = "arbol" =>
        \A g, h \in 1..Len(datos_personas) :
            \A i \in 1..Len(datos_personas[g].ocurrencias) :
                \A j \in 1..Len(datos_personas[h].ocurrencias) :
                    (g = h) <=> (Tupla(datos_personas[g].ocurrencias[i]) =
                                 Tupla(datos_personas[h].ocurrencias[j]))

\* C3: in both modes a row is produced only for an identity with two or
\* more records, no row has cantidadOcurrencias < 2, and a batch whose
\* identities are all unique yields no row.
C3_SoloIdentidadesRepetidas ==
    Analizado =>
        /\ \A i \in 1..Len(FilasDeSalida) :
              /\ FilasDeSalida[i].cantidadOcurrencias >= 2
              /\ Cuenta(Lote, Tupla(FilasDeSalida[i])) >= 2
        /\ (\A i \in 1..Len(Lote) : Cuenta(Lote, Tupla(Lote[i])) = 1)
              => FilasDeSalida = <<>>

\* C4: every record of an identity that the batch holds twice or more is
\* reported by the rows exactly as many times as the batch holds it, and
\* the number of rows is the sum of the sizes of the duplicate groups.
C4_ResultadoCompleto ==
    Analizado =>
        /\ \A i \in 1..Len(Lote) :
              Cuenta(Lote, Tupla(Lote[i])) >= 2 =>
                  Cardinality({k \in 1..Len(FilasDeSalida) :
                                  Coincide(FilasDeSalida[k], Lote[i])})
                  = Cardinality({j \in 1..Len(Lote) :
                                    Coincide(Lote[j], Lote[i])})
        /\ Len(FilasDeSalida) =
              Cardinality({i \in 1..Len(Lote) :
                              Cuenta(Lote, Tupla(Lote[i])) >= 2})

\* The joined name of a row: its three names separated by single spaces
NombreDeFila(fila) ==
    NombreCompleto(fila.nombre, fila.primerApellido, fila.segundoApellido)

\* cantidadOcurrencias descending, then the joined name ascending
OrdenadoPorCantidadYNombre(filas) ==
    \A i \in 1..(Len(filas) - 1) :
        \/ filas[i].cantidadOcurrencias > filas[i + 1].cantidadOcurrencias
        \/ /\ filas[i].cantidadOcurrencias = filas[i + 1].cantidadOcurrencias
           /\ ~LexMenor(NombreDeFila(filas[i + 1]), NombreDeFila(filas[i]))

Claves(filas) ==
    [i \in 1..Len(filas) |->
        <<filas[i].nombreCompleto, filas[i].cantidadOcurrencias>>]

\* Both sequences hold the same rows, each as many times
MismasFilas(f, g) ==
    /\ Len(f) = Len(g)
    /\ \A k \in 1..Len(f) :
          Cardinality({i \in 1..Len(f) : f[i] = f[k]})
          = Cardinality({i \in 1..Len(g) : g[i] = f[k]})

\* The analyzer has run on a batch and runs on a reordering of it
Reanalisis == pc \in {"analizado", "reordenado"} /\ pc' = "reordenado"

\* C6 as stated: the analyzer yields the same sequence of rows for the
\* same records in another insertion order, the rows of one identity that
\* differ only in id or rutaArchivo included.
C6_MismaSecuenciaDeFilas ==
    [][Reanalisis => duplicados_df' = duplicados_df]_vars

\* C6 amended: for the same records in another insertion order the
\* analyzer yields the same rows and the same (nombreCompleto,
\* cantidadOcurrencias) at every position, and the same number of
\* duplicated names; only rows of one nombreCompleto may change places.
C6_MismasClavesPorPosicion ==
    [][Reanalisis =>
          /\ Claves(duplicados_df') = Claves(duplicados_df)
          /\ MismasFilas(duplicados_df', duplicados_df)
          /\ num_nombres_duplicados' = num_nombres_duplicados]_vars

\* C6 witness: a reordered batch was analysed and gave two names of two
\* rows each, the rows of the first name with id 2 before id 1.
C6_Testigo ==
    /\ modo = "analizador"
    /\ pc = "reordenado"
    /\ Len(duplicados_df) = 4
    /\ duplicados_df[1].nombreCompleto = duplicados_df[2].nombreCompleto
    /\ duplicados_df[1].id = "2"
    /\ duplicados_df[2].id = "1"
    /\ duplicados_df[3].nombreCompleto # duplicados_df[1].nombreCompleto

\* C7: in whole-tree mode every record of the accumulator has a non-empty
\* nombre and a non-empty primerApellido, so an element whose three names
\* are empty never adds a record.
C7_NombreYApellidoNoVacios ==
    modo = "arbol" =>
        \A i \in 1..Len(Acumulados(datos_personas)) :
            /\ Acumulados(datos_personas)[i].nombre # Vacia
            /\ Acumulados(datos_personas)[i].primerApellido # Vacia

\* C7 witness: the walk has read a file that holds an element of empty
\* names next to a named one, and holds the named record alone.
C7_Testigo ==
    /\ modo = "arbol"
    /\ Len(archivos) = 1
    /\ archivos[1].forma = "lista"
    /\ archivos[1].contenido = <<NombresVacios, PersonaA1>>
    /\ Len(Acumulados(datos_personas)) = 1

\* The nested path declaracion -> situacionPatrimonial -> datosGenerales
\* exists in the element
RutaPresente(r) ==
    /\ r.forma = "dict"
    /\ r.declaracion = "dict"
    /\ r.situacionPatrimonial = "dict"
    /\ r.datosGenerales # "ausente"

\* C8 as stated: extraer_datos_persona returns a record for every element
\* in which the path is present, whatever the names hold, and returns none
\* only when the path is absent.
C8_RegistroSiiRutaPresente ==
    (modo = "extractor" /\ pc = "extraido") =>
        (datos_persona # Ninguno <=> RutaPresente(registro))

\* C8 amended: extraer_datos_persona returns a record exactly when the
\* path is present, datosGenerales is a non-empty mapping and metadata,
\* when the element has it, is a mapping; the names do not matter, and a
\* missing name is the empty string in the record.  It returns none when
\* the path is absent, when datosGenerales is empty or when reading the
\* element raises.
C8_RegistroSiiDatosGeneralesNoVacio ==
    (modo = "extractor" /\ pc = "extraido") =>
        /\ datos_persona # Ninguno <=>
              /\ RutaPresente(registro)
              /\ registro.datosGenerales = "dict"
              /\ registro.metadata # "escalar"
        /\ datos_persona # Ninguno =>
              /\ datos_persona[1].nombre = Get(registro.nombre, Vacia)
              /\ datos_persona[1].primerApellido =
                     Get(registro.primerApellido, Vacia)
              /\ datos_persona[1].segundoApellido =
                     Get(registro.segundoApellido, Vacia)

\* C8 witness: the extractor has returned a record for an element whose
\* datosGenerales holds none of the three names.
C8_Testigo ==
    /\ modo = "extractor"
    /\ pc = "extraido"
    /\ registro.nombre = <<>>
    /\ registro.primerApellido = <<>>
    /\ registro.segundoApellido = <<>>
    /\ datos_persona # Ninguno
    /\ datos_persona[1].nombreCompleto = <<Espacio, Espacio>>

\* A .json file that opens, parses and iterates
Legible(archivo) == EsJson(archivo) /\ ~LanzaArchivo(archivo)

RECURSIVE UnoPorUnoArbol(_, _, _)
\* The accumulator after the elements, each handed over alone
UnoPorUnoArbol(contenido, ruta, datos) ==
    IF contenido = <<>> THEN datos
    ELSE UnoPorUnoArbol(Tail(contenido), ruta,
             procesar_registros(<<Head(contenido)>>, ruta, datos))

RECURSIVE UnoPorUnoParticionado(_, _, _)
\* The batch after the elements, each handed over alone
UnoPorUnoParticionado(contenido, ruta, lote) ==
    IF contenido = <<>> THEN lote
    ELSE UnoPorUnoParticionado(Tail(contenido), ruta,
             leer_registros(<<Head(contenido)>>, ruta, lote))

RECURSIVE AisladosArbol(_, _)
AisladosArbol(visitados, datos) ==
    IF visitados = <<>> THEN datos
    ELSE AisladosArbol(Tail(visitados),
             IF Legible(Head(visitados))
             THEN UnoPorUnoArbol(Elementos(Head(visitados)),
                                 Head(visitados).ruta, datos)
             ELSE datos)

RECURSIVE AisladosParticionado(_, _)
AisladosParticionado(visitados, lote) ==
    IF visitados = <<>> THEN lote
    ELSE AisladosParticionado(Tail(visitados),
             IF Legible(Head(visitados))
             THEN UnoPorUnoParticionado(Elementos(Head(visitados)),
                                        Head(visitados).ruta, lote)
             ELSE lote)

\* C9: an element that raises is skipped alone.  In both modes the batch
\* is what the elements of the files read give one by one, each on its
\* own: an element that raises gives nothing and takes nothing from the
\* elements before and after it, and no exception leaves the file.
C9_ErrorDeRegistroAislado ==
    /\ modo = "arbol" =>
          datos_personas = AisladosArbol(archivos, <<>>)
    /\ modo = "particionado" =>
          registros = AisladosParticionado(archivos, <<>>)
    /\ modo \in {"arbol", "particionado"} => ~interrumpido

\* C9 witness: a file of two valid elements around one that raises has
\* been read and gave exactly two records.
C9_Testigo ==
    /\ modo = "arbol"
    /\ Len(archivos) = 1
    /\ archivos[1].forma = "lista"
    /\ archivos[1].contenido = <<PersonaA1, ElementoEscalar, PersonaA1>>
    /\ Len(Acumulados(datos_personas)) = 2
    /\ ~interrumpido

RECURSIVE RecorridoArbol(_, _)
\* The accumulator after a walk over the files
RecorridoArbol(visitados, datos) ==
    IF visitados = <<>> THEN datos
    ELSE RecorridoArbol(Tail(visitados),
             procesar_archivo_json(Head(visitados), datos).datos)

RECURSIVE RecorridoParticionado(_, _)
\* The batch after the files of a directory
RecorridoParticionado(visitados, lote) ==
    IF visitados = <<>> THEN lote
    ELSE RecorridoParticionado(Tail(visitados),
             leer_archivo(Head(visitados), lote, 0).registros)

\* C10: a file that cannot be opened or parsed does not end the walk and
\* leaves the batch as it was: at every point of the walk no exception
\* has left the loop over the files, and the batch is the one that the
\* readable files met so far give alone.
C10_ErrorDeArchivoNoAborta ==
    /\ modo \in {"arbol", "particionado"} => ~interrumpido
    /\ modo = "arbol" =>
          datos_personas =
              RecorridoArbol(SelectSeq(archivos, Legible), <<>>)
    /\ modo = "particionado" =>
          registros =
              RecorridoParticionado(SelectSeq(archivos, Legible), <<>>)

\* C10 witness: the walk met a file that cannot be read and then a file
\* with a record, and holds that record.
C10_Testigo ==
    /\ modo = "arbol"
    /\ Len(archivos) = 2
    /\ archivos[1].lectura = "error"
    /\ Legible(archivos[2])
    /\ Len(Acumulados(datos_personas)) >= 1
    /\ \A i \in 1..Len(Acumulados(datos_personas)) :
          Acumulados(datos_personas)[i].rutaArchivo = 2

\* The run over a root is in the loop over the subdirectories or past it
EnRaiz == modo \in {"excel", "csv"}

\* A directory that cannot be listed or that holds no .json file
SinArchivosJson(directorio) ==
    \/ ~directorio.listable
    \/ SelectSeq(directorio.archivos, EsJson) = <<>>

\* C11: in partitioned mode a subdirectory that cannot be listed or holds
\* no .json file gives the batch (no records, 0 files processed) and no
\* exception; its row counts 0 files, 0 records and 0 duplicates, the
\* analyzer gives no rows for its batch, and every subdirectory met has
\* its row, so the run went on to the next one.
C11_DirectorioVacioNoAborta ==
    EnRaiz =>
        /\ Len(resultados_directorios) = Len(Subdirectorios(raiz))
        /\ \A k \in 1..Len(resultados_directorios) :
              SinArchivosJson(Subdirectorios(raiz)[k]) =>
                  /\ leer_archivos_json_directorio(Subdirectorios(raiz)[k])
                         = [registros |-> <<>>, archivos_procesados |-> 0,
                            excepcion |-> FALSE]
                  /\ analizar_duplicados(<<>>).duplicados = <<>>
                  /\ resultados_directorios[k] =
                         [directorio |-> Subdirectorios(raiz)[k].nombre,
                          archivos |-> 0, registros |-> 0,
                          cantidadDuplicados |-> 0, nombresDuplicados |-> 0]
        /\ (pc = "terminado" /\ Subdirectorios(raiz) # <<>>)
              => retorno = <<TRUE>>

\* C11 witness: a directory that cannot be listed was met first, then a
\* directory with two duplicate rows, and the run returned.
C11_Testigo ==
    /\ EnRaiz
    /\ pc = "terminado"
    /\ Len(raiz) = 2
    /\ ~raiz[1].listable
    /\ Len(resultados_directorios) = 2
    /\ resultados_directorios[1].archivos = 0
    /\ resultados_directorios[2].cantidadDuplicados = 2

\* C12: a run that finds no duplicate group is reported as success, and the
\* result for "no duplicates" differs from the result for a report that
\* could not be generated: in whole-tree mode generar_informe_duplicados
\* returns True when the accumulator holds no duplicate group, and returns
\* False exactly when there were duplicate groups and no sheet was written.
C12_SinDuplicadosNoEsError ==
    (modo = "arbol" /\ pc = "terminado") =>
        /\ Duplicados(datos_personas) = <<>> => resultado = <<TRUE>>
        /\ resultado = <<FALSE>> <=>
              (Duplicados(datos_personas) # <<>> /\ hoja = <<>>)

\* Some directory had duplicate rows and the run left no output at all:
\* every write to the destination failed and none went to a fallback
NadaEscrito ==
    /\ \E k \in 1..Len(resultados_directorios) :
          resultados_directorios[k].cantidadDuplicados > 0
    /\ ~libro.existe
    /\ csv = {}

\* C13: when the destination cannot be written and no fallback location
\* is used (spreadsheet mode has none, in delimited-text mode the
\* temporary directory failed too), main ends with a non-zero exit status.
C13_DestinoNoEscribibleSalidaNoCero ==
    (EnRaiz /\ pc = "terminado" /\ NadaEscrito) =>
        (salida # <<>> /\ salida[1] # 0)

\* procesar_directorio_raiz returned True over a root with subdirectories
Completado ==
    /\ pc = "terminado"
    /\ retorno = <<TRUE>>
    /\ Subdirectorios(raiz) # <<>>

\* C14: in spreadsheet mode every completed run over a root with at least
\* one subdirectory leaves one workbook with one sheet per subdirectory,
\* named by the first 31 characters of the directory's name, and the sheet
\* 'Resumen', and no other sheet, whether or not a directory has
\* duplicates.
C14_UnaHojaPorDirectorioYResumen ==
    (modo = "excel" /\ Completado) =>
        /\ libro.existe
        /\ \A k \in 1..Len(Subdirectorios(raiz)) :
              ExisteHoja(libro, nombre_hoja(Subdirectorios(raiz)[k].nombre))
        /\ ExisteHoja(libro, Resumen)
        /\ Len(libro.hojas) = Len(Subdirectorios(raiz)) + 1

\* The batch of a directory: the records of the files directly inside it
LoteDe(directorio) == leer_archivos_json_directorio(directorio).registros

\* The .json files directly inside a directory that open and parse
LegiblesDe(directorio) ==
    IF directorio.listable THEN SelectSeq(directorio.archivos, Legible)
    ELSE <<>>

\* The records of a batch whose identity the batch holds twice or more,
\* and those identities
Repetidos(lote) == {i \in 1..Len(lote) : Cuenta(lote, Tupla(lote[i])) >= 2}
IdentidadesRepetidas(lote) == {Tupla(lote[i]) : i \in Repetidos(lote)}

\* The summary row of a directory as the claim describes it
FilaEsperada(directorio) ==
    [directorio |-> directorio.nombre,
     archivos |-> Len(LegiblesDe(directorio)),
     registros |-> Len(LoteDe(directorio)),
     cantidadDuplicados |-> Cardinality(Repetidos(LoteDe(directorio))),
     nombresDuplicados |->
         Cardinality(IdentidadesRepetidas(LoteDe(directorio)))]

\* C15: in partitioned mode the summary built after the subdirectories has
\* exactly one row per subdirectory, those without files or records
\* included; the row of a directory carries its files processed, its
\* records, the number of its records whose identity (nombre,
\* primerApellido, segundoApellido) occurs twice or more in it and the
\* number of those identities; the rows are in non-increasing order of
\* the duplicate-row count.
C15_ResumenUnaFilaPorDirectorio ==
    (EnRaiz /\ Completado) =>
        /\ Len(resumen) = Len(Subdirectorios(raiz))
        /\ \A k \in 1..Len(Subdirectorios(raiz)) :
              Cardinality({i \in 1..Len(resumen) :
                              resumen[i].directorio =
                                  Subdirectorios(raiz)[k].nombre}) = 1
        /\ \A k \in 1..Len(Subdirectorios(raiz)) :
              \E i \in 1..Len(resumen) :
                  resumen[i] = FilaEsperada(Subdirectorios(raiz)[k])
        /\ OrdenadoPorDuplicados(resumen)

\* The duplicate rows of a directory
DuplicadosDe(directorio) ==
    analizar_directorio(directorio.nombre, LoteDe(directorio), 0).duplicados

\* A file written by the run is the table of a subdirectory met or the
\* summary built
EsSalidaDeLaCorrida(f) ==
    \/ /\ f.nombre = nombre_archivo_resumen
       /\ f.filas = resumen
       /\ resumen # <<>>
    \/ \E k \in 1..Len(Subdirectorios(raiz)) :
          /\ f.nombre = nombre_archivo_csv(Subdirectorios(raiz)[k].nombre)
          /\ f.filas = DuplicadosDe(Subdirectorios(raiz)[k])
          /\ f.filas # <<>>

C17_UnArchivoPorDirectorio ==
    modo = "csv" =>
        /\ \A j, k \in 1..Len(Subdirectorios(raiz)) :
              Subdirectorios(raiz)[j].nombre # Subdirectorios(raiz)[k].nombre
                  => nombre_archivo_csv(Subdirectorios(raiz)[j].nombre)
                         # nombre_archivo_csv(Subdirectorios(raiz)[k].nombre)
        /\ \A f \in csv :
              \A k \in 1..Len(Subdirectorios(raiz)) :
                  (/\ f.nombre =
                          nombre_archivo_csv(Subdirectorios(raiz)[k].nombre)
                   /\ DuplicadosDe(Subdirectorios(raiz)[k]) # <<>>)
                      => f.filas = DuplicadosDe(Subdirectorios(raiz)[k])

\* The files directly inside a directory, under their full paths
ArchivosDirectos(directorio) ==
    [i \in 1..Len(directorio.archivos) |->
        [directorio.archivos[i] EXCEPT
            !.ruta = ruta_completa(directorio, directorio.archivos[i])]]

\* The records that the readable .json files directly inside a directory
\* give, and nothing else
LoteDirecto(directorio) ==
    IF directorio.listable
    THEN RecorridoParticionado(
             SelectSeq(ArchivosDirectos(directorio), Legible), <<>>)
    ELSE <<>>

\* The rows of a table all come from files of the directory `nombre`
FilasDelDirectorio(filas, nombre) ==
    \A i \in 1..Len(filas) : filas[i].rutaArchivo[1] = nombre

\* C18: in partitioned mode each immediate subdirectory of the root is
\* analysed as a batch of its own: the row of a directory counts the
\* records of the files directly inside it and the duplicates among those
\* records alone, every table written holds rows of one directory only,
\* and the .json files of the root and of grandchild directories give no
\* record.
C18_LotesIndependientes ==
    EnRaiz =>
        /\ Len(resultados_directorios) = Len(Subdirectorios(raiz))
        /\ \A k \in 1..Len(resultados_directorios) :
              LET directorio == Subdirectorios(raiz)[k]
                  a == analizar_directorio(directorio.nombre,
                                           LoteDirecto(directorio), 0)
              IN  /\ resultados_directorios[k].directorio = directorio.nombre
                  /\ resultados_directorios[k].registros =
                         Len(LoteDirecto(directorio))
                  /\ resultados_directorios[k].cantidadDuplicados =
                         Len(a.duplicados)
                  /\ resultados_directorios[k].nombresDuplicados =
                         a.fila.nombresDuplicados
                  /\ FilasDelDirectorio(a.duplicados, directorio.nombre)
        /\ \A h \in 1..Len(libro.hojas) :
              \/ libro.hojas[h].filas = resumen
              \/ \E k \in 1..Len(Subdirectorios(raiz)) :
                    /\ libro.hojas[h].nombre =
                           nombre_hoja(Subdirectorios(raiz)[k].nombre)
                    /\ libro.hojas[h].filas =
                           analizar_directorio(Subdirectorios(raiz)[k].nombre,
                               LoteDirecto(Subdirectorios(raiz)[k]),
                               0).duplicados
        /\ \A f \in csv :
              \/ f.filas = resumen
              \/ \E k \in 1..Len(Subdirectorios(raiz)) :
                    /\ f.nombre =
                           nombre_archivo_csv(Subdirectorios(raiz)[k].nombre)
                    /\ f.filas =
                           analizar_directorio(Subdirectorios(raiz)[k].nombre,
                               LoteDirecto(Subdirectorios(raiz)[k]),
                               0).duplicados

\* C18 witness: a directory with one record of a person, and the same
\* person again in a grandchild directory, was processed next to another
\* directory with one record of that person; no directory reports a
\* duplicate.
C18_Testigo ==
    /\ EnRaiz
    /\ pc = "terminado"
    /\ Len(raiz) = 2
    /\ Len(Subdirectorios(raiz)) = 2
    /\ \E k \in 1..2 : raiz[k].nietos # <<>>
    /\ Len(resultados_directorios) = 2
    /\ \A k \in 1..2 :
          /\ resultados_directorios[k].registros = 1
          /\ resultados_directorios[k].cantidadDuplicados = 0
    /\ LoteDirecto(raiz[1])[1].nombreCompleto =
           LoteDirecto(raiz[2])[1].nombreCompleto

RECURSIVE RegistrosEnOrden(_, _)
\* The records the elements of one file give, in element order
RegistrosEnOrden(contenido, ruta) ==
    IF contenido = <<>> THEN <<>>
    ELSE Acumulados(procesar_registro(Head(contenido), ruta, <<>>))
         \o RegistrosEnOrden(Tail(contenido), ruta)

RECURSIVE VisitadosEnOrden(_)
\* The records of a walk: file visit order, then element order
VisitadosEnOrden(visitados) ==
    IF visitados = <<>> THEN <<>>
    ELSE (IF Legible(Head(visitados))
          THEN RegistrosEnOrden(Elementos(Head(visitados)),
                                Head(visitados).ruta)
          ELSE <<>>)
         \o VisitadosEnOrden(Tail(visitados))

\* The records of the walk that have the identity of a row, in visit order
DeLaIdentidad(fila) ==
    SelectSeq(VisitadosEnOrden(archivos), LAMBDA r : Tupla(r) = Tupla(fila))

\* C19: in whole-tree mode the rows of a duplicate group are numbered
\* 1..N without gap or repeat, N being the group's cantidadOcurrencias,
\* and the row numbered n reports the n-th record of that identity in the
\* order of the walk (file visit order, then element order in the file).
C19_OcurrenciaNumeroEnOrden ==
    (modo = "arbol" /\ pc = "terminado") =>
        \A i \in 1..Len(df) :
            /\ df[i].ocurrenciaNumero =
                   Cardinality({k \in 1..i : Tupla(df[k]) = Tupla(df[i])})
            /\ df[i].cantidadOcurrencias =
                   Cardinality({k \in 1..Len(df) : Tupla(df[k]) = Tupla(df[i])})
            /\ df[i].ocurrenciaNumero \in 1..df[i].cantidadOcurrencias
            /\ Len(DeLaIdentidad(df[i])) = df[i].cantidadOcurrencias
            /\ Coincide(df[i], DeLaIdentidad(df[i])[df[i].ocurrenciaNumero])

\* C19 witness: a person met with id 2 in the first file and with ids 1
\* and 2 in the second has the rows 1, 2, 3 with the ids 2, 1, 2.
C19_Testigo ==
    /\ modo = "arbol"
    /\ pc = "terminado"
    /\ Len(df) = 3
    /\ \A i \in 1..3 : df[i].ocurrenciaNumero = i /\ df[i].cantidadOcurrencias = 3
    /\ df[1].id = "2" /\ df[1].rutaArchivo = 1
    /\ df[2].id = "1" /\ df[2].rutaArchivo = 2
    /\ df[3].id = "2" /\ df[3].rutaArchivo = 2

\* C20: in spreadsheet mode the file found at ruta_destino is removed
\* before any subdirectory is read and before any sheet is written: as
\* long as that file is there, no entry of the root has been read, no row
\* and no summary exists and the file is as it was found; and when the run
\* has gone on with that file still there, procesar_directorio_raiz has
\* returned False.
C20_AnteriorEliminadoAntesDeLeer ==
    modo = "excel" =>
        /\ libro.anterior =>
              /\ raiz = <<>>
              /\ resultados_directorios = <<>>
              /\ resumen = <<>>
              /\ libro = LibroAnterior
              /\ pc # "inicio" => retorno = <<FALSE>>
        /\ (raiz # <<>> \/ pc = "subdirectorios") => ~libro.anterior

\* C20 witness: the file found at ruta_destino was removed, and the run
\* ended with a new workbook of one directory sheet and the summary.
C20_Testigo ==
    /\ modo = "excel"
    /\ pc = "terminado"
    /\ libro.eliminado
    /\ libro.existe
    /\ ~libro.anterior
    /\ Len(libro.hojas) = 2
    /\ libro.hojas[1].filas # <<>>
    /\ libro.hojas[2].nombre = Resumen
    /\ libro.hojas[2].filas = resumen

\* C21: in delimited-text mode all the files one run writes, the table of
\* every directory and the summary, are in one and the same directory:
\* all in the destination asked for or all in the temporary directory.
C21_SalidasEnUnSoloDirectorio ==
    modo = "csv" => \A f, g \in csv : f.en = g.en

====
